---- MODULE Spec2Model ----
(***************************************************************************)
(* A model of quantcore.matrix.CategoricalMatrix, of the intercept-aware   *)
(* sandwich helper _safe_sandwich_dot and of the benchmark driver          *)
(* sklearn_fork_bench.                                                     *)
(*                                                                         *)
(* Arrays are sequences; Python's 0-based positions are kept as values     *)
(* (codes, index arrays), and a 0-based position i is read at i + 1.       *)
(* Floating point values are modelled by integers: every input is a small  *)
(* integer, so sums and products are exact in float64 as well.             *)
(***************************************************************************)
EXTENDS Integers, Sequences, FiniteSets, TLC

VARIABLES
    self,    \* the CategoricalMatrix instance (cat, shape, indices, x_csc, dtype)
    inp,     \* the arguments the caller passes in this behaviour
    ret,     \* the last call: its name and what it returned or raised
    held,    \* a result the caller kept from an earlier call
    builds   \* how many times the CSC form was computed (tocsr().tocsc())

vars == <<self, inp, ret, held, builds>>

(***************************************************************************)
(* Bounds of the model.                                                    *)
(***************************************************************************)
MaxRows == 2        \* rows of a matrix
MaxCats == 2        \* categories of a matrix
MaxSel == 2         \* length of an index array passed as rows / cols
MaxCrossDim == 2    \* rows, categories and partner columns in cross_sandwich
MaxBuilds == 2      \* forced recomputations of the CSC cache that are followed
MaxAlphas == 2      \* length of the estimator's alpha path

(***************************************************************************)
(* Python / numpy values.                                                  *)
(***************************************************************************)
\* An optional argument: None is the empty tuple, a given value x is <<x>>.
None == <<>>
Some(x) == <<x>>
IsNone(o) == Len(o) = 0
Get(o) == o[1]

Min(a, b) == IF a < b THEN a ELSE b

arange(n) == [i \in 1..n |-> i - 1]
ones(n) == [i \in 1..n |-> 1]
zeros(n) == [i \in 1..n |-> 0]

\* a[i] for a Python position i; a negative position counts from the end.
PyAt(a, i) == IF i < 0 THEN a[Len(a) + i + 1] ELSE a[i + 1]

\* a[idx] for an index array idx (numpy integer-array indexing).
Take(a, idx) == [t \in 1..Len(idx) |-> PyAt(a, idx[t])]

\* Whether the index array idx holds position j.
Holds(idx, j) == \E t \in 1..Len(idx) : idx[t] = j

RECURSIVE SumSeq(_)
SumSeq(s) == IF Len(s) = 0 THEN 0 ELSE s[1] + SumSeq(Tail(s))

\* Index arrays over the positions 0..n-1 with lo..hi entries.
IndexArrays(n, lo, hi) == UNION {[1..l -> 0..(n - 1)] : l \in lo..hi}

\* An optional index array: None, or one of IndexArrays.
OptIndexArrays(n, lo, hi) == {None} \cup {Some(a) : a \in IndexArrays(n, lo, hi)}

\* What a call returned or raised.
NoCall == [op |-> "init", type |-> "none"]
Raise(op, exc) == [op |-> op, type |-> "raise", exc |-> exc]
Ndarray(op, ndim, a) == [op |-> op, type |-> "ndarray", ndim |-> ndim, a |-> a]

(***************************************************************************)
(* pandas.Categorical and the constructor.                                 *)
(***************************************************************************)
NA == 0     \* a missing label (None / NaN) in a raw label sequence

SortedSeq(S) ==
    CHOOSE s \in [1..Cardinality(S) -> S] :
        \A i, j \in 1..Cardinality(S) : i < j => s[i] < s[j]

IndexOf(s, x) == CHOOSE i \in 1..Len(s) : s[i] = x

\* pd.Categorical(labels): the categories are the sorted distinct labels that
\* are not missing; a missing label gets the code -1.
PdCategorical(labels) ==
    LET cats == SortedSeq({labels[i] : i \in 1..Len(labels)} \ {NA})
    IN  [codes |-> [i \in 1..Len(labels) |->
                        IF labels[i] = NA THEN -1 ELSE IndexOf(cats, labels[i]) - 1],
         categories |-> cats]

\* cat[row] for an index array: the codes are selected, the categories kept.
CatTake(cat, rows) == [codes |-> Take(cat.codes, rows), categories |-> cat.categories]

\* CategoricalMatrix.__init__
CategoricalMatrix(cat_vec, dtype) ==
    LET cat == IF cat_vec.type = "Categorical"
               THEN [codes |-> cat_vec.codes, categories |-> cat_vec.categories]
               ELSE PdCategorical(cat_vec.labels)
    IN  [cat |-> cat,
         shape |-> <<Len(cat.codes), Len(cat.categories)>>,
         indices |-> cat.codes,
         x_csc |-> None,
         dtype |-> dtype]

\* Raw label sequences of 1..n labels out of 1..k, none missing.
LabelLists(n, k) ==
    {[type |-> "list", labels |-> l] : l \in UNION {[1..m -> 1..k] : m \in 1..n}}

\* Already-encoded categorical values whose codes are all valid.
Categoricals(n, k) ==
    UNION {{[type |-> "Categorical", codes |-> c, categories |-> [j \in 1..kk |-> j]] :
                c \in UNION {[1..m -> 0..(kk - 1)] : m \in 1..n}} : kk \in 1..k}

\* Constructor inputs without a missing or unrecognized label.
CtorInputs(n, k) == LabelLists(n, k) \cup Categoricals(n, k)

(***************************************************************************)
(* CategoricalMatrix.dot                                                   *)
(***************************************************************************)
\* col_mult = np.zeros(k); col_mult[cols] = 1.0
ColMultAll(k, cols) == ones(k)
ColMult(k, cols) == [j \in 1..k |-> IF Holds(cols, j - 1) THEN 1 ELSE 0]

\* other is [ndim, a] with a the sequence of its leading entries, each a row:
\* the rows of a matrix (ndim 2), or one-entry rows <<v>> for a vector (ndim 1).
dot(s, other, rows, cols) ==
    IF Len(other.a) # s.shape[2]
    THEN Raise("dot", "ValueError")
    ELSE LET col_mult == ColMult(Len(s.cat.categories), Get(cols))
             other_m ==
                 IF IsNone(cols) THEN other.a
                 ELSE IF other.ndim = 1
                      THEN [j \in 1..Len(other.a) |-> <<other.a[j][1] * col_mult[j]>>]
                      ELSE [j \in 1..Len(other.a) |->
                               [c \in 1..Len(other.a[j]) |-> other.a[j][c] * col_mult[j]]]
         IN  IF IsNone(rows)
             THEN Ndarray("dot", other.ndim, Take(other_m, s.indices))
             ELSE Ndarray("dot", other.ndim, Take(other_m, Take(s.indices, Get(rows))))

Dot ==
    /\ ret' = dot(self, inp.other, inp.rows, inp.cols)
    /\ UNCHANGED <<self, inp, held, builds>>

Dtypes == {"float64", "float32"}

\* CategoricalMatrix.astype: only the dtype tag changes, the instance is returned.
AsType ==
    /\ \E dtype \in Dtypes : self' = [self EXCEPT !.dtype = dtype]
    /\ ret' = [op |-> "astype", type |-> "self"]
    /\ UNCHANGED <<inp, held, builds>>

(***************************************************************************)
(* Arguments of dot.                                                       *)
(***************************************************************************)

\* Vectors and two-column matrices with len leading entries, all nonzero and
\* no two leading entries alike.
Others(len) ==
    {[ndim |-> 1, a |-> [j \in 1..len |-> <<j>>]],
     [ndim |-> 1, a |-> [j \in 1..len |-> <<len + 1 - j>>]],
     [ndim |-> 2, a |-> [j \in 1..len |-> <<j, len + 1 - j>>]]}

InitDot ==
    /\ \E cat_vec \in CtorInputs(MaxRows, MaxCats) :
         /\ self = CategoricalMatrix(cat_vec, "float64")
         /\ \E len \in 1..(MaxCats + 1) :
            \E other \in Others(len),
               rows \in OptIndexArrays(self.shape[1], 0, MaxSel),
               cols \in OptIndexArrays(self.shape[2], 0, MaxSel) :
                 inp = [other |-> other, rows |-> rows, cols |-> cols]
    /\ ret = NoCall
    /\ held = NoCall
    /\ builds = 0

NextDot == Dot

SpecDot == InitDot /\ [][NextDot]_vars

(***************************************************************************)
(* C4: dot returns, for each selected row r in the order given, the entry  *)
(* (or row) other[codes[r]] when codes[r] is among cols or cols is absent, *)
(* and zero otherwise; it raises ValueError exactly when other's leading   *)
(* dimension is not k; and the call leaves the matrix as it was.           *)
(***************************************************************************)
DotZero(other) == [c \in 1..Len(other.a[1]) |-> 0]

DotExpected(s, other, rows, cols) ==
    LET sel == IF IsNone(rows) THEN arange(s.shape[1]) ELSE Get(rows)
    IN  [t \in 1..Len(sel) |->
            LET code == s.indices[sel[t] + 1]
            IN  IF IsNone(cols) \/ Holds(Get(cols), code)
                THEN other.a[code + 1]
                ELSE DotZero(other)]

\* The result part of C4: what dot returns, and when it raises.
C4_DotResult ==
    ret.op = "dot" =>
        IF Len(inp.other.a) # Len(self.cat.categories)
        THEN ret.type = "raise" /\ ret.exc = "ValueError"
        ELSE /\ ret.type = "ndarray"
             /\ ret.ndim = inp.other.ndim
             /\ ret.a = DotExpected(self, inp.other, inp.rows, inp.cols)

\* C4: dot returns other[codes[r]] or zero row by row, raises ValueError
\* exactly on a wrong leading dimension, and leaves the matrix as it was.
C4_Dot == []C4_DotResult /\ [][ret'.op = "dot" => self' = self]_vars

C4_Witness ==
    /\ ret.op = "dot" /\ ret.type = "ndarray"
    /\ ~IsNone(inp.cols) /\ ~IsNone(inp.rows)
    /\ \E t \in 1..Len(ret.a) : ret.a[t] = DotZero(inp.other)
    /\ \E t \in 1..Len(ret.a) : ret.a[t] # DotZero(inp.other)

(***************************************************************************)
(* Format conversion and the CSC cache.                                    *)
(***************************************************************************)
\* CategoricalMatrix.tocsr: one entry 1 per row, at column codes[row].
tocsr(s) ==
    [data |-> ones(s.shape[1]),
     indices |-> s.indices,
     indptr |-> arange(s.shape[1] + 1),
     shape |-> s.shape]

\* The row (0-based) of the p-th stored entry of a CSR matrix.
CsrRowOf(m, p) == CHOOSE r \in 0..(m.shape[1] - 1) : m.indptr[r + 1] < p /\ p <= m.indptr[r + 2]

\* scipy's csr_matrix.tocsc(): the entries ordered by column, and within a
\* column by row; indptr[j] counts the entries of the columns before j.
CsrToCsc(m) ==
    LET nnz == Len(m.indices)
        rank(p) == Cardinality({q \in 1..nnz : m.indices[q] < m.indices[p]})
                   + Cardinality({q \in 1..p : m.indices[q] = m.indices[p]})
        at(t) == CHOOSE p \in 1..nnz : rank(p) = t
    IN  [data |-> [t \in 1..nnz |-> m.data[at(t)]],
         indices |-> [t \in 1..nnz |-> CsrRowOf(m, at(t))],
         indptr |-> [j \in 1..(m.shape[2] + 1) |->
                        Cardinality({q \in 1..nnz : m.indices[q] < j - 1})],
         shape |-> m.shape]

\* Whether _check_csc computes the CSC form.
RebuildsAlways(s, force_reset) == TRUE
Rebuilds(s, force_reset) == IsNone(s.x_csc) \/ force_reset

\* np.testing.assert_allclose(csc.data, np.ones(self.shape[0])) fails.
CscAssertFails(s) == CsrToCsc(tocsr(s)).data # ones(s.shape[1])

\* CategoricalMatrix._check_csc: the instance after the call; self.x_csc is
\* what the call returns.
CheckCsc(s, force_reset) ==
    IF Rebuilds(s, force_reset)
    THEN LET csc == CsrToCsc(tocsr(s))
         IN  [s EXCEPT !.x_csc = Some([indices |-> csc.indices, indptr |-> csc.indptr])]
    ELSE s

\* The count of CSC computations after a call of _check_csc.
BuildsAfter(s, force_reset) == IF Rebuilds(s, force_reset) THEN builds + 1 ELSE builds

\* _check_csc(force_reset=True)
ForceReset ==
    /\ builds < MaxBuilds
    /\ IF CscAssertFails(self)
       THEN ret' = Raise("_check_csc", "AssertionError") /\ UNCHANGED <<self, builds>>
       ELSE /\ self' = CheckCsc(self, TRUE)
            /\ builds' = BuildsAfter(self, TRUE)
            /\ ret' = [op |-> "_check_csc", type |-> "x_csc", x_csc |-> self'.x_csc]
    /\ UNCHANGED <<inp, held>>

\* CategoricalMatrix.tocsc
ToCsc ==
    /\ IF CscAssertFails(self)
       THEN ret' = Raise("tocsc", "AssertionError") /\ UNCHANGED <<self, builds>>
       ELSE /\ self' = CheckCsc(self, FALSE)
            /\ builds' = BuildsAfter(self, FALSE)
            /\ ret' = [op |-> "tocsc", type |-> "csc_matrix",
                       data |-> ones(self.shape[1]),
                       indices |-> Get(self'.x_csc).indices,
                       indptr |-> Get(self'.x_csc).indptr]
    /\ UNCHANGED <<inp, held>>

(***************************************************************************)
(* CategoricalMatrix.sandwich                                              *)
(***************************************************************************)
\* How many times the rows selector takes row r (once when it is absent).
Count(rows, r) ==
    IF IsNone(rows) THEN 1
    ELSE Cardinality({t \in 1..Len(Get(rows)) : Get(rows)[t] = r})

\* The compiled kernel sandwich_categorical: the diagonal of
\* self[rows, cols]^T diag(d) self[rows, cols], column by column from the
\* CSC index and pointer arrays.
sandwich_categorical(indices, indptr, d, rows, cols) ==
    LET diag == [i \in 1..(Len(indptr) - 1) |->
                    SumSeq([t \in 1..(indptr[i + 1] - indptr[i]) |->
                               LET row == indices[indptr[i] + t]
                               IN  Count(rows, row) * d[row + 1]])]
    IN  IF IsNone(cols) THEN diag ELSE Take(diag, Get(cols))

\* sps.diags(res_diag)
Diags(op, diag) == [op |-> op, type |-> "dia_matrix", diag |-> diag]

\* Entry (i, j), 0-based, of a matrix a call returned.
Entry(m, i, j) ==
    IF m.type = "dia_matrix" THEN (IF i = j THEN m.diag[i + 1] ELSE 0)
    ELSE m.a[i + 1][j + 1]

sandwichAllRows(s, d, rows, cols) ==
    LET x_csc == Get(CheckCsc(s, FALSE).x_csc)
    IN  Diags("sandwich", sandwich_categorical(x_csc.indices, x_csc.indptr, d, None, cols))
sandwich(s, d, rows, cols) ==
    LET x_csc == Get(CheckCsc(s, FALSE).x_csc)
    IN  Diags("sandwich", sandwich_categorical(x_csc.indices, x_csc.indptr, d, rows, cols))

Sandwich ==
    /\ IF CscAssertFails(self)
       THEN ret' = Raise("sandwich", "AssertionError") /\ UNCHANGED <<self, builds>>
       ELSE /\ self' = CheckCsc(self, FALSE)
            /\ builds' = BuildsAfter(self, FALSE)
            /\ ret' = sandwich(self, inp.d, inp.rows, inp.cols)
    /\ UNCHANGED <<inp, held>>

\* Weight vectors of length n: all ones, and 1, 2, 4, ... (no two sums of
\* different rows alike).
Weights(n) == {ones(n), [i \in 1..n |-> 2 ^ (i - 1)]}

InitSandwich ==
    /\ \E cat_vec \in CtorInputs(MaxRows, MaxCats) :
         /\ self = CategoricalMatrix(cat_vec, "float64")
         /\ \E d \in Weights(self.shape[1]),
               rows \in OptIndexArrays(self.shape[1], 0, MaxSel) :
                 inp = [d |-> d, rows |-> rows, cols |-> None]
    /\ ret = NoCall
    /\ held = NoCall
    /\ builds = 0

NextSandwich == Sandwich \/ ToCsc

SpecSandwich == InitSandwich /\ [][NextSandwich]_vars

(***************************************************************************)
(* C3: sandwich(d) is a k x k matrix whose off-diagonal entries are zero   *)
(* and whose diagonal entry (i, i) is the sum of d[r] over the selected    *)
(* rows r (all rows without a rows restriction) with codes[r] = i, which   *)
(* is 0 for a category no selected row maps to.                            *)
(***************************************************************************)
SandwichDiagExpected(s, d, rows, i) ==
    LET sel == IF IsNone(rows) THEN arange(s.shape[1]) ELSE Get(rows)
    IN  SumSeq([t \in 1..Len(sel) |->
                   IF s.cat.codes[sel[t] + 1] = i THEN d[sel[t] + 1] ELSE 0])

\* C3: the matrix sandwich returns is diagonal, with the sums of the selected
\* rows' weights by category on its diagonal.
C3_Sandwich ==
    ret.op = "sandwich" =>
        /\ ret.type = "dia_matrix"
        /\ Len(ret.diag) = Len(self.cat.categories)
        /\ \A i, j \in 0..(Len(self.cat.categories) - 1) :
             Entry(ret, i, j) =
                 IF i = j THEN SandwichDiagExpected(self, inp.d, inp.rows, i) ELSE 0

C3_Witness ==
    /\ ret.op = "sandwich" /\ ret.type = "dia_matrix"
    /\ ~IsNone(inp.rows)
    /\ \E i, j \in 1..Len(ret.diag) : ret.diag[i] = 0 /\ ret.diag[j] > 2

(***************************************************************************)
(* The other operations of the matrix.                                     *)
(***************************************************************************)
\* The dense form (.A / toarray) of a CSR matrix, as a sequence of rows.
CsrToDense(m) ==
    [r \in 1..m.shape[1] |->
        [c \in 1..m.shape[2] |->
            SumSeq([t \in 1..(m.indptr[r + 1] - m.indptr[r]) |->
                       IF m.indices[m.indptr[r] + t] = c - 1
                       THEN m.data[m.indptr[r] + t] ELSE 0])]]

\* SparseMatrix.transpose_dot on the CSC triple: self[rows, cols]^T @ vec.
SparseTransposeDot(data, indices, indptr, vec, rows, cols) ==
    LET full == [j \in 1..(Len(indptr) - 1) |->
                    SumSeq([t \in 1..(indptr[j + 1] - indptr[j]) |->
                               LET row == indices[indptr[j] + t]
                               IN  Count(rows, row) * data[indptr[j] + t] * vec[row + 1]])]
    IN  IF IsNone(cols) THEN full ELSE Take(full, Get(cols))

\* CategoricalMatrix.transpose_dot, given the instance after _check_csc.
transpose_dot(s, vec, rows, cols) ==
    LET x_csc == Get(CheckCsc(s, FALSE).x_csc)
        data == ones(s.shape[1])
    IN  SparseTransposeDot(data, x_csc.indices, x_csc.indptr, vec, rows, cols)

TransposeDot ==
    /\ IF CscAssertFails(self)
       THEN ret' = Raise("transpose_dot", "AssertionError") /\ UNCHANGED <<self, builds>>
       ELSE /\ self' = CheckCsc(self, FALSE)
            /\ builds' = BuildsAfter(self, FALSE)
            /\ ret' = Ndarray("transpose_dot", 1, transpose_dot(self, inp.d, inp.rows, inp.cols))
    /\ UNCHANGED <<inp, held>>

\* CategoricalMatrix.get_col_stds: sqrt(mean - col_means ** 2); the result is
\* kept as the values under the square root.
GetColStds ==
    /\ IF CscAssertFails(self)
       THEN ret' = Raise("get_col_stds", "AssertionError") /\ UNCHANGED <<self, builds>>
       ELSE /\ self' = CheckCsc(self, FALSE)
            /\ builds' = BuildsAfter(self, FALSE)
            /\ ret' = [op |-> "get_col_stds", type |-> "sqrt",
                       of |-> LET mean == transpose_dot(self, inp.d, None, None)
                              IN  [j \in 1..Len(mean) |->
                                      mean[j] - inp.col_means[j] * inp.col_means[j]]]
    /\ UNCHANGED <<inp, held>>

\* CategoricalMatrix.recover_orig
RecoverOrig ==
    /\ ret' = [op |-> "recover_orig", type |-> "labels",
               a |-> Take(self.cat.categories, self.cat.codes)]
    /\ UNCHANGED <<self, inp, held, builds>>

\* CategoricalMatrix.getcol: column i mod k as a one-column 0/1 matrix.
GetCol ==
    /\ ret' = [op |-> "getcol", type |-> "csc_matrix",
               a |-> LET i == inp.i % self.shape[2]
                     IN  [r \in 1..Len(self.indices) |->
                             <<IF self.indices[r] = i THEN 1 ELSE 0>>]]
    /\ UNCHANGED <<self, inp, held, builds>>

ToCsr ==
    /\ ret' = [op |-> "tocsr", type |-> "csr_matrix", m |-> tocsr(self)]
    /\ UNCHANGED <<self, inp, held, builds>>

\* CategoricalMatrix.toarray
ToArray ==
    /\ ret' = Ndarray("toarray", 2, CsrToDense(tocsr(self)))
    /\ UNCHANGED <<self, inp, held, builds>>

(***************************************************************************)
(* CategoricalMatrix.cross_sandwich and its three paths.                   *)
(***************************************************************************)
\* slice(None, None, None)
FullSlice == <<>>
IsFullSlice(sel) == Len(sel) = 0

\* _none_to_slice: an absent selector, and one as long as the axis, become
\* the full slice.
NoneToSlice(arr, n) == IF IsNone(arr) \/ Len(Get(arr)) = n THEN FullSlice ELSE arr

\* a[sel, :] and a[:, sel] for a sequence of rows a; sel is the full slice or
\* an index array.
SelRows(a, sel) == IF IsFullSlice(sel) THEN a ELSE Take(a, Get(sel))
SelCols(a, sel) == IF IsFullSlice(sel) THEN a ELSE [r \in 1..Len(a) |-> Take(a[r], Get(sel))]

\* The compiled kernel sandwich_cat_dense: the (i_ncol, len(j_cols)) matrix
\* self[rows, :]^T diag(d) mat_j[rows, j_cols].
sandwich_cat_dense(i_indices, i_ncol, d, mat_j, rows, j_cols) ==
    [i \in 1..i_ncol |->
        [jj \in 1..Len(j_cols) |->
            SumSeq([t \in 1..Len(rows) |->
                       IF i_indices[rows[t] + 1] = i - 1
                       THEN d[rows[t] + 1] * mat_j[rows[t] + 1][j_cols[jj] + 1]
                       ELSE 0])]]

\* The compiled kernel _sandwich_cat_cat: the (i_ncol, j_ncol) matrix
\* self[rows, :]^T diag(d) other[rows, :] of two one-hot matrices.
sandwich_cat_cat(i_indices, j_indices, i_ncol, j_ncol, d, rows) ==
    [i \in 1..i_ncol |->
        [j \in 1..j_ncol |->
            SumSeq([t \in 1..Len(rows) |->
                       IF i_indices[rows[t] + 1] = i - 1 /\ j_indices[rows[t] + 1] = j - 1
                       THEN d[rows[t] + 1]
                       ELSE 0])]]

CrossResult(partner, a) ==
    [op |-> "cross_sandwich", type |-> "ndarray", ndim |-> 2, a |-> a, partner |-> partner]

\* other is [type |-> "ndarray", a, shape]
cross_dense(s, other, d, rows, L_cols, R_cols) ==
    LET i_indices == s.indices
        rows1 == IF IsNone(rows) THEN arange(s.shape[1]) ELSE Get(rows)
        R_cols1 == IF IsNone(R_cols) THEN arange(other.shape[2]) ELSE Get(R_cols)
        res == sandwich_cat_dense(i_indices, s.shape[2], d, other.a, rows1, R_cols1)
    IN  CrossResult("ndarray", SelRows(res, NoneToSlice(L_cols, s.shape[2])))

\* other is [type |-> "CategoricalMatrix", obj] with obj an instance
cross_categorical(s, other, d, rows, L_cols, R_cols) ==
    LET i_indices == s.indices
        j_indices == other.obj.indices
        rows1 == IF IsNone(rows) THEN arange(s.shape[1]) ELSE Get(rows)
        res == sandwich_cat_cat(i_indices, j_indices, s.shape[2], other.obj.shape[2], d, rows1)
        L_cols1 == NoneToSlice(L_cols, s.shape[2])
        R_cols1 == NoneToSlice(R_cols, other.obj.shape[2])
    IN  CrossResult("CategoricalMatrix", SelCols(SelRows(res, L_cols1), R_cols1))

\* other is [type |-> "csc_matrix", a, shape]
cross_sparse(s, other, d, rows, L_cols, R_cols) ==
    LET csr == tocsr(s)
        term_1 == [csr EXCEPT !.data = [p \in 1..Len(csr.data) |-> csr.data[p] * d[p]]]
        rows1 == NoneToSlice(rows, s.shape[1])
        L_cols1 == NoneToSlice(L_cols, s.shape[2])
        term_2 == SelCols(SelRows(CsrToDense(term_1), rows1), L_cols1)
        right == SelCols(SelRows(other.a, rows1), NoneToSlice(R_cols, other.shape[2]))
        nleft == IF IsFullSlice(L_cols1) THEN s.shape[2] ELSE Len(Get(L_cols1))
        nright == IF IsFullSlice(NoneToSlice(R_cols, other.shape[2]))
                  THEN other.shape[2] ELSE Len(Get(R_cols))
    IN  CrossResult("csc_matrix",
            [i \in 1..nleft |->
                [j \in 1..nright |->
                    SumSeq([t \in 1..Len(term_2) |-> term_2[t][i] * right[t][j]])]])

cross_sandwich(s, other, d, rows, L_cols, R_cols) ==
    IF other.type = "ndarray" THEN cross_dense(s, other, d, rows, L_cols, R_cols)
    ELSE IF other.type = "csc_matrix" THEN cross_sparse(s, other, d, rows, L_cols, R_cols)
    ELSE IF other.type = "CategoricalMatrix"
         THEN cross_categorical(s, other, d, rows, L_cols, R_cols)
    ELSE Raise("cross_sandwich", "TypeError")

\* The partner of the call: inp.partner holds either the values of a dense or
\* sparse partner, or the constructor input of a categorical partner.
ValuesShape(a) == <<Len(a), Len(a[1])>>

CrossSandwich(type) ==
    /\ ret' = cross_sandwich(self,
                  IF type = "CategoricalMatrix"
                  THEN [type |-> type, obj |-> CategoricalMatrix(inp.partner.cat_vec, "float64")]
                  ELSE [type |-> type, a |-> inp.partner.a, shape |-> ValuesShape(inp.partner.a)],
                  inp.d, inp.rows, inp.L_cols, inp.R_cols)
    /\ UNCHANGED <<self, inp, held, builds>>

CrossSandwichDense == inp.partner.kind = "values" /\ CrossSandwich("ndarray")
CrossSandwichSparse == inp.partner.kind = "values" /\ CrossSandwich("csc_matrix")
CrossSandwichCategorical == inp.partner.kind = "categorical" /\ CrossSandwich("CategoricalMatrix")
CrossSandwichCsr == inp.partner.kind = "values" /\ CrossSandwich("csr_matrix")

\* The caller keeps the result of the last call.
Keep ==
    /\ ret.op # "init"
    /\ held' = ret
    /\ UNCHANGED <<self, inp, ret, builds>>

(***************************************************************************)
(* Arguments of cross_sandwich.                                            *)
(***************************************************************************)
\* Partners with n rows: the values of a dense or sparse partner with 1..m
\* columns (all ones, or no two entries alike), or the labels of a
\* categorical partner with up to m categories.
CrossPartners(n, m) ==
    UNION {{[kind |-> "values", a |-> [r \in 1..n |-> [c \in 1..mm |-> 1]]],
            [kind |-> "values", a |-> [r \in 1..n |-> [c \in 1..mm |-> (r - 1) * mm + c]]]} :
                mm \in 1..m}
    \cup {[kind |-> "categorical", cat_vec |-> [type |-> "list", labels |-> l]] :
              l \in [1..n -> 1..m]}

\* The number of columns of a partner.
PartnerCols(other) ==
    IF other.kind = "values" THEN Len(other.a[1])
    ELSE CategoricalMatrix(other.cat_vec, "float64").shape[2]

InitCross ==
    /\ \E cat_vec \in CtorInputs(MaxCrossDim, MaxCrossDim) :
         /\ self = CategoricalMatrix(cat_vec, "float64")
         /\ \E partner \in CrossPartners(self.shape[1], MaxCrossDim),
               d \in Weights(self.shape[1]),
               rows \in OptIndexArrays(self.shape[1], 0, self.shape[1]),
               L_cols \in OptIndexArrays(self.shape[2], 0, self.shape[2]) :
            \E R_cols \in OptIndexArrays(PartnerCols(partner), 0, PartnerCols(partner)) :
                 inp = [partner |-> partner, d |-> d, rows |-> rows,
                        L_cols |-> L_cols, R_cols |-> R_cols]
    /\ ret = NoCall
    /\ held = NoCall
    /\ builds = 0

NextCross ==
    \/ CrossSandwichDense
    \/ CrossSandwichSparse
    \/ CrossSandwichCategorical
    \/ CrossSandwichCsr
    \/ Keep

SpecCross == InitCross /\ [][NextCross]_vars

(***************************************************************************)
(* C1: cross_sandwich(other, d, rows, L_cols, R_cols) is                   *)
(* self[rows, L_cols]^T diag(d) other[rows, R_cols] for a dense, a CSC and *)
(* a categorical partner, an absent selector selecting all and a given     *)
(* index array selecting what it lists, whatever its length.               *)
(***************************************************************************)
\* The partner as a sequence of rows of values.
PartnerValues(other) ==
    IF other.kind = "values" THEN other.a
    ELSE LET codes == PdCategorical(other.cat_vec.labels).codes
         IN  [r \in 1..Len(codes) |->
                 [c \in 1..PartnerCols(other) |-> IF codes[r] = c - 1 THEN 1 ELSE 0]]

CrossExpected(s, other, d, rows, L_cols, R_cols) ==
    LET rs == IF IsNone(rows) THEN arange(s.shape[1]) ELSE Get(rows)
        ls == IF IsNone(L_cols) THEN arange(s.shape[2]) ELSE Get(L_cols)
        cs == IF IsNone(R_cols) THEN arange(PartnerCols(other)) ELSE Get(R_cols)
        O == PartnerValues(other)
    IN  [i \in 1..Len(ls) |->
            [j \in 1..Len(cs) |->
                SumSeq([t \in 1..Len(rs) |->
                           IF s.cat.codes[rs[t] + 1] = ls[i]
                           THEN d[rs[t] + 1] * O[rs[t] + 1][cs[j] + 1]
                           ELSE 0])]]

C1_CrossSandwich ==
    (ret.op = "cross_sandwich" /\ ret.type = "ndarray") =>
        ret.a = CrossExpected(self, inp.partner, inp.d, inp.rows, inp.L_cols, inp.R_cols)

(***************************************************************************)
(* C2: for the same matrix, weights and selectors, cross_sandwich with a   *)
(* dense partner and with a CSC partner holding the same values return the *)
(* same matrix, for every selector.                                        *)
(***************************************************************************)
C2_DenseSparseAgree ==
    (/\ held.op = "cross_sandwich" /\ held.type = "ndarray" /\ held.partner = "ndarray"
     /\ ret.op = "cross_sandwich" /\ ret.type = "ndarray" /\ ret.partner = "csc_matrix")
        => held.a = ret.a

(***************************************************************************)
(* Sequences of operations on one instance.                                *)
(***************************************************************************)
InitCache ==
    /\ \E cat_vec \in CtorInputs(MaxRows, MaxCats) :
         /\ self = CategoricalMatrix(cat_vec, "float64")
         /\ \E partner \in CrossPartners(self.shape[1], 1),
               rows \in {None, Some(<<0>>)} :
                 inp = [other |-> [ndim |-> 1, a |-> [j \in 1..self.shape[2] |-> <<j>>]],
                        partner |-> partner,
                        d |-> [r \in 1..self.shape[1] |-> 2 ^ (r - 1)],
                        rows |-> rows, cols |-> None,
                        L_cols |-> None, R_cols |-> None,
                        col_means |-> zeros(self.shape[2]), i |-> self.shape[2]]
    /\ ret = NoCall
    /\ held = NoCall
    /\ builds = 0

NextCache ==
    \/ Dot
    \/ TransposeDot
    \/ Sandwich
    \/ CrossSandwichDense
    \/ CrossSandwichSparse
    \/ CrossSandwichCategorical
    \/ ToCsc
    \/ ToCsr
    \/ ToArray
    \/ GetCol
    \/ AsType
    \/ GetColStds
    \/ RecoverOrig
    \/ ForceReset

SpecCache == InitCache /\ [][NextCache]_vars

(***************************************************************************)
(* C10: the CSC cache is absent after construction; the first operation    *)
(* that needs it (transpose_dot, sandwich, tocsc, get_col_stds) builds it; *)
(* once built, no operation other than _check_csc with force_reset         *)
(* computes it again or changes it; and whenever it is present its index   *)
(* and pointer arrays are those of the CSC form of the one-hot matrix of   *)
(* the codes.                                                              *)
(***************************************************************************)
NeedsCsc == {"transpose_dot", "sandwich", "tocsc", "get_col_stds"}

RECURSIVE RowsByColumn(_, _)
\* The rows of the columns 0..k-1 of the one-hot matrix, column after column.
RowsByColumn(codes, k) ==
    IF k = 0 THEN <<>>
    ELSE RowsByColumn(codes, k - 1)
         \o SelectSeq(arange(Len(codes)), LAMBDA r : codes[r + 1] = k - 1)

OneHotCsc(codes, k) ==
    [indices |-> RowsByColumn(codes, k),
     indptr |-> [j \in 1..(k + 1) |-> Len(RowsByColumn(codes, j - 1))]]

\* The state part of C10: absent after construction, and right when present.
C10_CacheState ==
    /\ ret.op = "init" => IsNone(self.x_csc) /\ builds = 0
    /\ ~IsNone(self.x_csc) =>
           Get(self.x_csc) = OneHotCsc(self.cat.codes, Len(self.cat.categories))

\* The step part of C10: built on first need, and then left alone.
C10_CacheStep ==
    /\ (IsNone(self.x_csc) /\ ~IsNone(self'.x_csc)) =>
           (ret'.op \in NeedsCsc \cup {"_check_csc"} /\ builds' = builds + 1)
    /\ (ret'.op \in NeedsCsc /\ ret'.type # "raise") => ~IsNone(self'.x_csc)
    /\ (~IsNone(self.x_csc) /\ ret'.op # "_check_csc") =>
           (self'.x_csc = self.x_csc /\ builds' = builds)

\* C10: the CSC cache is absent at first, built by the first operation that
\* needs it, never computed again or changed without force_reset, and always
\* the CSC form of the one-hot matrix of the codes.
C10_Cache == []C10_CacheState /\ [][C10_CacheStep]_vars

C10_Witness ==
    /\ ~IsNone(self.x_csc)
    /\ builds = 1
    /\ ret.op = "dot"
    /\ Len(self.indices) > 1 /\ self.indices[1] > self.indices[2]

(***************************************************************************)
(* CategoricalMatrix.__getitem__                                           *)
(***************************************************************************)
\* slice(start, stop, step); an absent bound is None.
Slice(start, stop, step) == [type |-> "slice", start |-> start, stop |-> stop, step |-> step]

\* isinstance(col, slice) and col == slice(None, None, None)
IsSliceNone(col) ==
    col.type = "slice" /\ IsNone(col.start) /\ IsNone(col.stop) /\ IsNone(col.step)

\* a[sl] for a slice of step None or 1 with bounds that are absent or not negative.
SliceSeq(a, sl) ==
    LET lo == IF IsNone(sl.start) THEN 0 ELSE Min(Get(sl.start), Len(a))
        hi == IF IsNone(sl.stop) THEN Len(a) ELSE Min(Get(sl.stop), Len(a))
    IN  [t \in 1..(hi - lo) |-> a[lo + t]]

\* Whether self.cat[row] raises: a position outside the rows.
RowOutOfBounds(s, row) ==
    /\ row.type # "slice"
    /\ \E t \in 1..Len(row.a) : row.a[t] < -Len(s.cat.codes) \/ row.a[t] >= Len(s.cat.codes)

\* item is [tuple |-> TRUE, row, col] for matrix[row, col] and
\* [tuple |-> FALSE, row] for matrix[row]; a row is an int ([type |-> "int", a
\* |-> <<i>>], which the method turns into [i]), an index list or a slice.
getitem(s, item) ==
    IF item.tuple /\ ~IsSliceNone(item.col)
    THEN Raise("getitem", "IndexError")
    ELSE IF RowOutOfBounds(s, item.row)
    THEN Raise("getitem", "IndexError")
    ELSE LET cat == IF item.row.type = "slice"
                    THEN [codes |-> SliceSeq(s.cat.codes, item.row),
                          categories |-> s.cat.categories]
                    ELSE CatTake(s.cat, item.row.a)
         IN  [op |-> "getitem", type |-> "CategoricalMatrix",
              obj |-> CategoricalMatrix(
                          [type |-> "Categorical", codes |-> cat.codes,
                           categories |-> cat.categories], "float64")]

GetItem ==
    /\ ret' = getitem(self, inp.item)
    /\ UNCHANGED <<self, inp, held, builds>>

\* The caller goes on with the matrix the last __getitem__ returned.
Rebind ==
    /\ ret.op = "getitem" /\ ret.type = "CategoricalMatrix"
    /\ self' = ret.obj
    /\ ret' = [op |-> "rebind", type |-> "none"]
    /\ UNCHANGED <<inp, held, builds>>

\* Raw label sequences of 1..n labels out of 1..k or missing.
LabelListsNA(n, k) ==
    {[type |-> "list", labels |-> l] : l \in UNION {[1..m -> {NA} \cup 1..k] : m \in 1..n}}

\* Already-encoded categorical values; the code of a value that is none of
\* the categories is -1.
CategoricalsNA(n, k) ==
    UNION {{[type |-> "Categorical", codes |-> c, categories |-> [j \in 1..kk |-> j]] :
                c \in UNION {[1..m -> -1..(kk - 1)] : m \in 1..n}} : kk \in 1..k}

\* Row selectors over n rows: an int, an index list, the slices [:] and [0:1].
RowItems(n) ==
    {[type |-> "int", a |-> <<i>>] : i \in 0..(n - 1)}
    \cup {[type |-> "list", a |-> a] : a \in IndexArrays(n, 1, MaxSel)}
    \cup {Slice(None, None, None), Slice(Some(0), Some(1), None)}

\* Column selectors over k columns: the slices [:], [0:k] and [0:1], the
\* list of one column and the list of all columns.
ColItems(k) ==
    {Slice(None, None, None), Slice(Some(0), Some(k), None), Slice(Some(0), Some(1), None)}
    \cup {[type |-> "list", a |-> <<0>>], [type |-> "list", a |-> arange(k)]}

InitIndex ==
    /\ \E cat_vec \in LabelListsNA(MaxRows, MaxCats) \cup CategoricalsNA(MaxRows, MaxCats) :
         /\ self = CategoricalMatrix(cat_vec, "float64")
         /\ \E row \in RowItems(self.shape[1]) :
              \/ inp = [item |-> [tuple |-> FALSE, row |-> row]]
              \/ \E col \in ColItems(self.shape[2]) :
                   inp = [item |-> [tuple |-> TRUE, row |-> row, col |-> col]]
    /\ ret = NoCall
    /\ held = NoCall
    /\ builds = 0

NextIndex == GetItem \/ Rebind \/ AsType

SpecIndex == InitIndex /\ [][NextIndex]_vars

(***************************************************************************)
(* C7: for a matrix with k > 1 categories, matrix[rows, cols] raises       *)
(* IndexError for every cols that does not select all columns; for every   *)
(* cols that is the full-range slice, written [:] or with the bounds 0 and *)
(* k, it returns a new matrix over the selected rows with all k            *)
(* categories; and the matrix indexed is left as it was.                   *)
(***************************************************************************)
\* The slice selects the columns 0..k-1: no bound, or the bounds 0 and k.
IsFullRangeSlice(col, k) ==
    /\ col.type = "slice"
    /\ (IsNone(col.start) \/ col.start = Some(0))
    /\ (IsNone(col.stop) \/ col.stop = Some(k))

SelectsAllColumns(col, k) ==
    IsFullRangeSlice(col, k) \/ (col.type = "list" /\ col.a = arange(k))

\* The result part of C7: when matrix[rows, cols] raises and what it returns.
C7_GetItemState ==
    (ret.op = "getitem" /\ inp.item.tuple /\ self.shape[2] > 1
        /\ ~RowOutOfBounds(self, inp.item.row)) =>
        /\ ~SelectsAllColumns(inp.item.col, self.shape[2]) =>
               (ret.type = "raise" /\ ret.exc = "IndexError")
        /\ IsFullRangeSlice(inp.item.col, self.shape[2]) =>
               /\ ret.type = "CategoricalMatrix"
               /\ ret.obj.cat.categories = self.cat.categories
               /\ ret.obj.shape[2] = self.shape[2]
               /\ ret.obj.shape[1] = Len(ret.obj.cat.codes)

\* C7: IndexError for a cols that does not select all columns, a new matrix
\* with all k categories for a full-range slice, the indexed matrix unchanged.
C7_GetItem == []C7_GetItemState /\ [][ret'.op = "getitem" => self' = self]_vars

(***************************************************************************)
(* C9: in every matrix built from a label sequence or an already-encoded   *)
(* categorical value, missing or unrecognized labels included, and then    *)
(* row-subset and retyped any number of times, every code is at least 0    *)
(* and less than k, shape[0] is the number of codes and shape[1] the       *)
(* number of categories.                                                   *)
(***************************************************************************)
C9_CodesValid ==
    /\ \A i \in 1..Len(self.indices) :
         0 <= self.indices[i] /\ self.indices[i] < Len(self.cat.categories)
    /\ self.shape[1] = Len(self.indices)
    /\ self.shape[2] = Len(self.cat.categories)

(***************************************************************************)
(* _safe_sandwich_dot                                                      *)
(***************************************************************************)
\* X is the categorical matrix ([type |-> "CategoricalMatrix"], the instance
\* self), or a dense or sparse design matrix given by its values a.

\* X.shape[1]
XCols(s, X) == IF X.type = "CategoricalMatrix" THEN s.shape[2] ELSE Len(X.a[1])

\* The sandwich operation of the dense and the sparse matrix type: the
\* ndarray X^T diag(d) X.
ValuesSandwich(a, d) ==
    Ndarray("sandwich", 2,
        [i \in 1..Len(a[1]) |->
            [j \in 1..Len(a[1]) |->
                SumSeq([r \in 1..Len(a) |-> a[r][i] * d[r] * a[r][j]])]])

\* X.sandwich(d)
XSandwich(s, X, d) ==
    IF X.type = "CategoricalMatrix" THEN sandwich(s, d, None, None)
    ELSE ValuesSandwich(X.a, d)

\* d @ X: the weighted column sums.
RMatmul(s, X, d) ==
    IF X.type = "CategoricalMatrix" THEN transpose_dot(s, d, None, None)
    ELSE [j \in 1..Len(X.a[1]) |-> SumSeq([r \in 1..Len(X.a) |-> d[r] * X.a[r][j]])]

\* Whether numpy can store value into a block of a float array: it can store
\* an ndarray, and cannot convert a scipy sparse matrix.
Assignable(value) == value.type = "ndarray"

\* The exceptions numpy raises for a value it cannot store, by version.
AssignErrors == {"TypeError", "ValueError"}

\* The matrix the function returns; exc is the exception of a failed
\* assignment res_including_intercept[1:, 1:] = result.
safe_sandwich_dot(s, X, d, intercept, exc) ==
    LET result == XSandwich(s, X, d)
    IN  IF intercept
        THEN LET dim == XCols(s, X) + 1
                 col == RMatmul(s, X, d)
             IN  IF ~Assignable(result)
                 THEN Raise("_safe_sandwich_dot", exc)
                 ELSE Ndarray("_safe_sandwich_dot", 2,
                          [i \in 1..dim |->
                              [j \in 1..dim |->
                                  IF i = 1 /\ j = 1 THEN SumSeq(d)
                                  ELSE IF j = 1 THEN col[i - 1]
                                  ELSE IF i = 1 THEN col[j - 1]
                                  ELSE Entry(result, i - 2, j - 2)]])
        ELSE [result EXCEPT !.op = "_safe_sandwich_dot"]

SafeSandwichDot ==
    /\ IF inp.X.type = "CategoricalMatrix" /\ CscAssertFails(self)
       THEN ret' = Raise("_safe_sandwich_dot", "AssertionError") /\ UNCHANGED <<self, builds>>
       ELSE /\ \E exc \in AssignErrors :
                 ret' = safe_sandwich_dot(self, inp.X, inp.d, inp.intercept, exc)
            /\ IF inp.X.type = "CategoricalMatrix"
               THEN self' = CheckCsc(self, FALSE) /\ builds' = BuildsAfter(self, FALSE)
               ELSE UNCHANGED <<self, builds>>
    /\ UNCHANGED <<inp, held>>

\* Design matrices with n rows: the categorical matrix itself, and dense and
\* sparse matrices of 1..p columns (all ones, or no two entries alike).
DesignMatrices(n, p) ==
    {[type |-> "CategoricalMatrix"]}
    \cup UNION {{[type |-> t, a |-> [r \in 1..n |-> [c \in 1..pp |-> 1]]],
                 [type |-> t, a |-> [r \in 1..n |-> [c \in 1..pp |-> (r - 1) * pp + c]]]} :
                    <<t, pp>> \in {"DenseGLMDataMatrix", "SparseMatrix"} \X (1..p)}

InitSafe ==
    /\ \E cat_vec \in CtorInputs(MaxRows, MaxCats) :
         /\ self = CategoricalMatrix(cat_vec, "float64")
         /\ \E X \in DesignMatrices(self.shape[1], MaxCats),
               d \in Weights(self.shape[1]),
               intercept \in BOOLEAN :
                 inp = [X |-> X, d |-> d, intercept |-> intercept]
    /\ ret = NoCall
    /\ held = NoCall
    /\ builds = 0

NextSafe == SafeSandwichDot

SpecSafe == InitSafe /\ [][NextSafe]_vars

(***************************************************************************)
(* C5: _safe_sandwich_dot(X, d, intercept=True) returns a symmetric        *)
(* (p+1) x (p+1) matrix M with M[0,0] = sum(d), M[1:,0] = M[0,1:] = d @ X  *)
(* and M[1:,1:] the result X.sandwich(d) of the call without intercept,    *)
(* for every matrix X.                                                     *)
(***************************************************************************)
C5_InterceptBlocks ==
    (ret.op = "_safe_sandwich_dot" /\ inp.intercept) =>
        /\ ret.type = "ndarray"
        /\ LET p == XCols(self, inp.X)
               plain == safe_sandwich_dot(self, inp.X, inp.d, FALSE, "TypeError")
           IN  /\ Len(ret.a) = p + 1
               /\ \A i \in 1..(p + 1) : Len(ret.a[i]) = p + 1
               /\ \A i, j \in 1..(p + 1) : ret.a[i][j] = ret.a[j][i]
               /\ ret.a[1][1] = SumSeq(inp.d)
               /\ \A j \in 1..p : ret.a[j + 1][1] = RMatmul(self, inp.X, inp.d)[j]
               /\ \A i, j \in 0..(p - 1) : ret.a[i + 2][j + 2] = Entry(plain, i, j)

(***************************************************************************)
(* C6: _safe_sandwich_dot returns a dense array (ndarray) with and without *)
(* intercept, whether X is dense, sparse or categorical.                   *)
(***************************************************************************)
C6_AlwaysNdarray == ret.op = "_safe_sandwich_dot" => ret.type = "ndarray"

(***************************************************************************)
(* sklearn_fork_bench                                                      *)
(***************************************************************************)
random_seed == 110

\* A distribution name is kept by its parts: the family word, and the text
\* after "-p=" (None when the name holds no "-p=").  "gaussian" becomes
\* "normal"; a name holding "tweedie" becomes TweedieDistribution(p), and
\* raises IndexError when there is nothing after "-p=" to read p from.
FamilyRaises(distribution) == distribution.word = "tweedie" /\ IsNone(distribution.p)

Family(distribution) ==
    IF distribution.word = "gaussian" THEN [family |-> "normal"]
    ELSE IF distribution.word = "tweedie"
         THEN [family |-> "TweedieDistribution", power |-> Get(distribution.p)]
    ELSE [family |-> distribution.word]

\* fit_args: X and y always, sample_weight and offset when the dataset has them.
FitArgs(dat) ==
    {"X", "y"}
    \cup (IF "weights" \in dat THEN {"sample_weight"} ELSE {})
    \cup (IF "offset" \in dat THEN {"offset"} ELSE {})

\* model_args before the caller's keyword arguments are merged in.
ModelArgs(distribution, alpha, l1_ratio, cv, reg_multiplier) ==
    LET defaults ==
            [family |-> Family(distribution),
             l1_ratio |-> l1_ratio,
             max_iter |-> 1000,
             random_state |-> random_seed,
             copy_X |-> FALSE,
             selection |-> "cyclic",
             gradient_tol |-> IF cv THEN "1" ELSE "benchmark_convergence_tolerance",
             step_size_tol |-> "0.01 * benchmark_convergence_tolerance",
             force_all_finite |-> FALSE]
    IN  IF cv THEN defaults
        ELSE defaults @@
             [alpha |-> IF IsNone(reg_multiplier) THEN alpha ELSE alpha * Get(reg_multiplier)]

RECURSIVE MaxOf(_)
MaxOf(s) == IF Len(s) = 1 THEN s[1]
            ELSE IF s[1] > MaxOf(Tail(s)) THEN s[1] ELSE MaxOf(Tail(s))

RECURSIVE MinOf(_)
MinOf(s) == IF Len(s) = 1 THEN s[1]
            ELSE IF s[1] < MinOf(Tail(s)) THEN s[1] ELSE MinOf(Tail(s))

\* The entries that every call adds to the result.
FitEntries(elapsed, m) ==
    [runtime |-> elapsed, intercept |-> m.intercept_, coef |-> m.coef_, n_iter |-> m.n_iter_]

\* The entries a cross-validated call adds to the result.
AlphaEntriesEnds(m) ==
    [n_alphas |-> Len(m.alphas_),
     max_alpha |-> m.alphas_[1],
     min_alpha |-> m.alphas_[Len(m.alphas_)],
     best_alpha |-> m.alpha_]
AlphaEntries(m) ==
    [n_alphas |-> Len(m.alphas_),
     max_alpha |-> MaxOf(m.alphas_),
     min_alpha |-> MinOf(m.alphas_),
     best_alpha |-> m.alpha_]

\* m is the fitted estimator runtime() hands back.
sklearn_fork_bench(dat, distribution, alpha, l1_ratio, cv, print_diagnostics, reg_multiplier, kwargs, elapsed, m) ==
    IF FamilyRaises(distribution)
    THEN Raise("sklearn_fork_bench", "IndexError")
    ELSE [op |-> "sklearn_fork_bench", type |-> "dict",
          fit_args |-> FitArgs(dat),
          model_args |-> kwargs @@ ModelArgs(distribution, alpha, l1_ratio, cv, reg_multiplier),
          result |-> IF cv THEN FitEntries(elapsed, m) @@ AlphaEntries(m)
                     ELSE FitEntries(elapsed, m),
          reported |-> print_diagnostics]

SklearnForkBench ==
    /\ ret' = sklearn_fork_bench(inp.dat, inp.distribution, inp.alpha, inp.l1_ratio,
                                 inp.cv, inp.print_diagnostics, inp.reg_multiplier,
                                 inp.kwargs, inp.elapsed, inp.m)
    /\ UNCHANGED <<self, inp, held, builds>>

\* Alpha paths of 1..MaxAlphas values.
AlphaPaths == UNION {[1..l -> 1..3] : l \in 1..MaxAlphas}

\* What a fit leaves in the estimator: GeneralizedLinearRegressorCV also has
\* the alpha path it explored (never empty) and the alpha it chose from it.
Estimators(cv) ==
    IF cv
    THEN {[class |-> "GeneralizedLinearRegressorCV", intercept_ |-> 1, coef_ |-> <<1, 0>>,
           n_iter_ |-> n, alphas_ |-> as, alpha_ |-> a] :
              <<n, as, a>> \in {t \in (1..2) \X AlphaPaths \X (1..3) :
                                    \E i \in 1..Len(t[2]) : t[2][i] = t[3]}}
    ELSE {[class |-> "GeneralizedLinearRegressor", intercept_ |-> 1, coef_ |-> <<1, 0>>,
           n_iter_ |-> n] : n \in 1..2}

\* Keyword arguments a caller may pass on to the estimator.
Keywords == [max_iter |-> 5, warm_start |-> 1]

Distributions ==
    {[word |-> "poisson", p |-> None], [word |-> "gaussian", p |-> None],
     [word |-> "tweedie", p |-> Some(15)], [word |-> "tweedie", p |-> None]}

InitBench ==
    /\ \E dat \in {{"X", "y"} \cup extra : extra \in SUBSET {"weights", "offset"}},
          distribution \in Distributions,
          cv \in BOOLEAN,
          print_diagnostics \in BOOLEAN,
          reg_multiplier \in {None, Some(2)},
          given \in SUBSET {"max_iter", "warm_start"} :
        \E m \in Estimators(cv) :
            inp = [dat |-> dat, distribution |-> distribution, alpha |-> 1, l1_ratio |-> 1,
                   cv |-> cv, print_diagnostics |-> print_diagnostics,
                   reg_multiplier |-> reg_multiplier,
                   kwargs |-> [key \in given |-> Keywords[key]],
                   elapsed |-> 1, m |-> m]
    /\ self = None
    /\ ret = NoCall
    /\ held = NoCall
    /\ builds = 0

NextBench == SklearnForkBench

SpecBench == InitBench /\ [][NextBench]_vars

(***************************************************************************)
(* C8: the record sklearn_fork_bench returns holds runtime, intercept,     *)
(* coef and n_iter; it holds n_alphas, max_alpha, min_alpha and best_alpha *)
(* exactly when cv is true, and then n_alphas is the length of the         *)
(* estimator's alpha path and max_alpha and min_alpha its maximum and      *)
(* minimum; with cv false it holds none of the four.                       *)
(***************************************************************************)
AlphaKeys == {"n_alphas", "max_alpha", "min_alpha", "best_alpha"}

\* C8: the keys of the returned record, and the alpha-path entries with cv.
C8_ResultKeys ==
    (ret.op = "sklearn_fork_bench" /\ ret.type = "dict") =>
        LET keys == DOMAIN ret.result
        IN  /\ {"runtime", "intercept", "coef", "n_iter"} \subseteq keys
            /\ IF inp.cv
               THEN /\ AlphaKeys \subseteq keys
                    /\ ret.result.n_alphas = Len(inp.m.alphas_)
                    /\ \A i \in 1..Len(inp.m.alphas_) :
                         /\ inp.m.alphas_[i] <= ret.result.max_alpha
                         /\ inp.m.alphas_[i] >= ret.result.min_alpha
                    /\ \E i \in 1..Len(inp.m.alphas_) : inp.m.alphas_[i] = ret.result.max_alpha
                    /\ \E i \in 1..Len(inp.m.alphas_) : inp.m.alphas_[i] = ret.result.min_alpha
               ELSE keys \cap AlphaKeys = {}

C8_Witness ==
    /\ ret.op = "sklearn_fork_bench" /\ ret.type = "dict"
    /\ inp.cv
    /\ ret.result.n_alphas = 2
    /\ ret.result.min_alpha < ret.result.max_alpha
    /\ inp.m.alphas_[1] = ret.result.min_alpha

====
